---- MODULE Spec2Model ----
(***************************************************************************)
(* A model of the OpenSec gateway: the pattern interceptor                 *)
(* (backend/interceptor.py), the risk aggregator                           *)
(* (backend/security_engine.py), the audit log and the HTTP handlers       *)
(* (backend/main.py) and the provider router (backend/bifrost.py).         *)
(*                                                                         *)
(* Conventions.                                                            *)
(*  - A text is a sequence of tokens; the text it stands for is the tokens *)
(*    joined by single spaces.  The vocabulary is chosen so that none of   *)
(*    the interceptor's patterns matches across a token boundary other     *)
(*    than the transfer phrase, which is matched token by token.           *)
(*  - A score is an integer count of 1e-5 units: 50000 is 0.5, 100000 is   *)
(*    1.0, 49996 is 0.49996.                                               *)
(*  - The timestamp of an audit event is left out: no operation reads it.  *)
(***************************************************************************)
EXTENDS Integers, Sequences, FiniteSets, TLC

VARIABLES
    content,    \* interceptor: the text handed to intercept_and_clean
    iresult,    \* interceptor: the InterceptorResult returned, or None
    prompt,     \* engine: the text handed to evaluate_prompt
    scan,       \* engine: what each scanner capability answers for prompt
    result,     \* engine: the ScanResult returned, or None
    ollama_score, \* engine: what _call_ollama_brain returned, or None
    store,      \* audit log: the file audit_log.json
    appended,   \* audit log: the events log_event was called with, in call order
    logcall,    \* audit log: the last log_event call (store before, event, outcome)
    faults,     \* audit log: how many persistence failures have happened so far
    wpc,        \* audit log writers: where each worker is inside log_event
    wlocal,     \* audit log writers: each worker's event and data
    cache,      \* router: litellm's response cache, a set of [key, text]
    req,        \* gateway: the last HTTP request handled, or None
    resp,       \* gateway: the response to it
    calls,      \* gateway: the components its handler invoked, in order
    upstream,   \* gateway: the provider models its handler called over the network
    rlast,      \* router: the last model-proxy call (request, response, upstream calls)
    prev,       \* router: the model-proxy call before that one
    policies,   \* state: the POLICIES dictionary
    nreq        \* gateway: how many requests have been handled

interceptorVars == <<content, iresult>>
engineVars == <<prompt, scan, result, ollama_score>>
logVars == <<store, appended, logcall, faults>>
writerVars == <<wpc, wlocal>>
gatewayVars == <<cache, req, resp, calls, upstream, rlast, prev, policies, nreq>>
vars == <<content, iresult, prompt, scan, result, ollama_score,
          store, appended, logcall, faults, wpc, wlocal,
          cache, req, resp, calls, upstream, rlast, prev, policies, nreq>>

None == [none |-> TRUE]

Max(a, b) == IF b > a THEN b ELSE a

(***************************************************************************)
(* Texts                                                                   *)
(***************************************************************************)
Vocabulary ==
    {"transfer", "WIRE", "$500", "to", "acct123", "4111111111111111",
     "123456789", "a@b.co", "Jailbreak"}

MaxTokens == 4

Texts == UNION {[1..n -> Vocabulary] : n \in 0..MaxTokens}

\* str.lower() on one token
Lower(t) ==
    CASE t = "WIRE" -> "wire"
      [] t = "Jailbreak" -> "jailbreak"
      [] t = "Analyze" -> "analyze"
      [] OTHER -> t

\* len() of one token
TokenLen(t) ==
    CASE t \in {"to"} -> 2
      [] t \in {"WIRE", "$500", "this", "FROM", "Drop"} -> 4
      [] t \in {"data:", "users"} -> 5
      [] t \in {"a@b.co", "SELECT", "orders"} -> 6
      [] t \in {"acct123", "Analyze"} -> 7
      [] t \in {"transfer"} -> 8
      [] t \in {"123456789", "Jailbreak"} -> 9
      [] t \in {"compliance", "superusers", "updated_at"} -> 10
      [] t \in {"[REDACTED]_CC"} -> 13
      [] t \in {"[REDACTED]_SSN"} -> 14
      [] t \in {"4111111111111111", "[REDACTED]_EMAIL", "[REDACTED]_PHONE"} -> 16
      [] t \in {"[REDACTED]_TRANSFER"} -> 19
      [] t \in {"x{480}"} -> 480
      [] OTHER -> 1

\* text[:k] from token i on, k counted in characters; "~" stands for the
\* leading part of a token the slice cuts through
RECURSIVE SliceFrom(_, _, _)
SliceFrom(text, i, k) ==
    IF i > Len(text) \/ k <= 0 THEN <<>>
    ELSE IF TokenLen(text[i]) <= k
         THEN <<text[i]>> \o SliceFrom(text, i + 1, k - TokenLen(text[i]) - 1)
         ELSE <<"~">>

Slice(text, k) == SliceFrom(text, 1, k)

LowerText(text) == [i \in 1..Len(text) |-> Lower(text[i])]

(***************************************************************************)
(* backend/interceptor.py                                                  *)
(***************************************************************************)
REDACTED_MARKER == "[REDACTED]"

\* r'\b(?:\d[ -]*?){13,16}\b' on one token
CREDIT_CARD_PATTERN(t) == t = "4111111111111111"

\* r'\b\d{3}[-.\s]?\d{2}[-.\s]?\d{4}\b' on one token
SSN_PATTERN(t) == t = "123456789"

\* r'\b[A-Za-z0-9._%+-]+@[A-Za-z0-9.-]+\.[A-Z|a-z]{2,}\b' on one token
EMAIL_PATTERN(t) == t = "a@b.co"

\* r'\b(?:\+?1[-.\s]?)?\(?\d{3}\)?[-.\s]?\d{3}[-.\s]?\d{4}\b' on one token:
\* no token of the vocabulary is a ten-digit number
PHONE_PATTERN(t) == FALSE

\* the pieces of ACCOUNT_TRANSFER_PATTERN, each on one token, case ignored
TransferVerb(t) == Lower(t) \in {"send", "transfer", "wire"}
TransferAmount(t) == t = "$500"
TransferTo(t) == Lower(t) = "to"
\* [A-Za-z0-9]+ matches the leading letters and digits of the token
TransferRecipient(t) == t # "$500"
RecipientMatched(t) == IF t = "a@b.co" THEN "a" ELSE t

\* r'(?:send|transfer|wire)\s+\$[\d,]+(?:\.\d{2})?\s+to\s+[A-Za-z0-9]+'
\* matched at token i of text
ACCOUNT_TRANSFER_PATTERN(text, i) ==
    /\ i + 3 <= Len(text)
    /\ TransferVerb(text[i])
    /\ TransferAmount(text[i + 1])
    /\ TransferTo(text[i + 2])
    /\ TransferRecipient(text[i + 3])

\* the text holds a transfer phrase: some position matches the pattern
HasTransferPhrase(text) == \E i \in 1..Len(text) : ACCOUNT_TRANSFER_PATTERN(text, i)

\* re.findall(ACCOUNT_TRANSFER_PATTERN, text, re.IGNORECASE): the start
\* positions of the non-overlapping matches, left to right from token i
RECURSIVE TransferMatches(_, _)
TransferMatches(text, i) ==
    IF i > Len(text) THEN <<>>
    ELSE IF ACCOUNT_TRANSFER_PATTERN(text, i)
         THEN <<i>> \o TransferMatches(text, i + 4)
         ELSE TransferMatches(text, i + 1)

\* re.sub(r'[^0-9]', '', match) and len() of it
DigitsOnlyLen(t) ==
    CASE t = "4111111111111111" -> 16
      [] t = "123456789" -> 9
      [] t \in {"$500", "acct123"} -> 3
      [] OTHER -> 0

MaskCreditCard(t) == IF t = "4111111111111111" THEN "411111***1111" ELSE t
MaskSSN(t) == IF t = "123456789" THEN "***-**-6789" ELSE t
MaskEmail(t) == IF t = "a@b.co" THEN "a@***@b.co" ELSE t
MaskPhone(t) == t

detect_sensitive_data(text) ==
    LET cc_matches == SelectSeq(text, CREDIT_CARD_PATTERN)
        cc_kept == SelectSeq(cc_matches, LAMBDA m : DigitsOnlyLen(m) >= 13)
        ssn_matches == SelectSeq(text, SSN_PATTERN)
        email_matches == SelectSeq(text, EMAIL_PATTERN)
        phone_matches == SelectSeq(text, PHONE_PATTERN)
        transfer_matches == TransferMatches(text, 1)
    IN  [k \in 1..Len(cc_kept) |->
            [type |-> "CREDIT_CARD", value |-> <<MaskCreditCard(cc_kept[k])>>]]
        \o [k \in 1..Len(ssn_matches) |->
            [type |-> "SSN", value |-> <<MaskSSN(ssn_matches[k])>>]]
        \o [k \in 1..Len(email_matches) |->
            [type |-> "EMAIL", value |-> <<MaskEmail(email_matches[k])>>]]
        \o [k \in 1..Len(phone_matches) |->
            [type |-> "PHONE", value |-> <<MaskPhone(phone_matches[k])>>]]
        \o [k \in 1..Len(transfer_matches) |->
            [type |-> "UNAUTHORIZED_TRANSFER",
             value |-> LET i == transfer_matches[k]
                       IN  <<text[i], text[i + 1], text[i + 2],
                             RecipientMatched(text[i + 3])>>]]

\* re.sub of the transfer pattern, from token i on
RECURSIVE RedactTransfers(_, _)
RedactTransfers(text, i) ==
    IF i > Len(text) THEN <<>>
    ELSE IF ACCOUNT_TRANSFER_PATTERN(text, i)
         THEN <<"[REDACTED]_TRANSFER">> \o RedactTransfers(text, i + 4)
         ELSE <<text[i]>> \o RedactTransfers(text, i + 1)

redact_sensitive_data(text) ==
    LET r1 == [i \in 1..Len(text) |->
                 IF CREDIT_CARD_PATTERN(text[i]) THEN "[REDACTED]_CC" ELSE text[i]]
        r2 == [i \in 1..Len(r1) |->
                 IF SSN_PATTERN(r1[i]) THEN "[REDACTED]_SSN" ELSE r1[i]]
        r3 == [i \in 1..Len(r2) |->
                 IF EMAIL_PATTERN(r2[i]) THEN "[REDACTED]_EMAIL" ELSE r2[i]]
        r4 == [i \in 1..Len(r3) |->
                 IF PHONE_PATTERN(r3[i]) THEN "[REDACTED]_PHONE" ELSE r3[i]]
    IN  RedactTransfers(r4, 1)

IsTransfer(d) == d.type = "UNAUTHORIZED_TRANSFER"

\* a faulty variant of intercept_and_clean that blocks only when nothing else
\* was detected
intercept_and_clean_mut(text) ==
    LET detected == detect_sensitive_data(text)
        unauthorized_transfers == SelectSeq(detected, IsTransfer)
    IN  IF unauthorized_transfers # <<>> /\ Len(unauthorized_transfers) = Len(detected)
        THEN [allowed |-> FALSE, redacted_content |-> <<>>,
              blocked_reason |-> "Unauthorized transfer request detected",
              detected_items |-> detected]
        ELSE [allowed |-> TRUE, redacted_content |-> redact_sensitive_data(text),
              blocked_reason |-> "", detected_items |-> detected]

intercept_and_clean(text) ==
    LET detected == detect_sensitive_data(text)
        unauthorized_transfers == SelectSeq(detected, IsTransfer)
    IN  IF unauthorized_transfers # <<>>
        THEN [allowed |-> FALSE, redacted_content |-> <<>>,
              blocked_reason |-> "Unauthorized transfer request detected",
              detected_items |-> detected]
        ELSE [allowed |-> TRUE, redacted_content |-> redact_sensitive_data(text),
              blocked_reason |-> "", detected_items |-> detected]

InterceptorIdle == content = <<>> /\ iresult = None
EngineIdle == prompt = <<>> /\ scan = None /\ result = None /\ ollama_score = None

(***************************************************************************)
(* backend/security_engine.py                                              *)
(***************************************************************************)
\* the scores a classifier, the firewall or the remote brain may supply,
\* in 1e-5 units; the range is not checked anywhere, so values below 0 and
\* above 1 are among them
ScoreValues == {-10000, 0, 30000, 49996, 50000, 60000, 150000}

\* what one llm_guard scanner does on scan(prompt): raises, or returns
\* is_valid with a score
GuardOutcomes == [kind : {"error"}] \cup [kind : {"valid", "invalid"}, score : ScoreValues]
FlagOutcomes == [kind : {"error", "valid", "invalid"}]

\* what self.firewall(msg) does: raises, or returns an object with a
\* risk_score and possibly an action
FirewallOutcomes ==
    [kind : {"error"}] \cup
    [kind : {"result"}, risk_score : ScoreValues, action : {"NONE", "BLOCK"}]

\* what the remote brain call does: no API key configured, the POST raises
\* (connection error or timeout), a non-success HTTP status, a body that is
\* not JSON, JSON without the 'response' key, a 'response' that is not a
\* string, a 'response' string float() rejects, or one it accepts
BrainOutcomes ==
    [kind : {"no_key", "transport_error", "http_error", "not_json",
             "no_response_key", "not_string", "not_float"}] \cup
    [kind : {"float"}, score : ScoreValues]

Scans ==
    [guard : {TRUE}, pi : {o \in GuardOutcomes : o.kind # "valid" \/ o.score = 0},
     secrets : FlagOutcomes, topics : FlagOutcomes,
     fw : FirewallOutcomes, brain : BrainOutcomes]
    \cup
    [guard : {FALSE}, pi : {[kind |-> "valid", score |-> 0]},
     secrets : {[kind |-> "valid"]}, topics : {[kind |-> "valid"]},
     fw : FirewallOutcomes, brain : BrainOutcomes]

EnginePrompts == {<<"acct123">>, <<"to", "Jailbreak">>}

_call_ollama_brain(brain) ==
    CASE brain.kind = "no_key" -> 0
      [] brain.kind \in {"transport_error", "http_error", "not_json", "not_string"} -> 0
      [] brain.kind = "no_response_key" -> 0
      [] brain.kind = "not_float" -> 100000
      [] brain.kind = "float" -> brain.score

\* evaluate_prompt, one scanner at a time; acc is [risk_score, details]
ScanPromptInjection(acc, sc) ==
    IF sc.guard /\ sc.pi.kind = "invalid"
    THEN [risk_score |-> Max(acc.risk_score, sc.pi.score),
          details |-> Append(acc.details, <<"Prompt Injection Detected", sc.pi.score>>)]
    ELSE acc

ScanSecrets(acc, sc) ==
    IF sc.guard /\ sc.secrets.kind = "invalid"
    THEN [risk_score |-> Max(acc.risk_score, 80000),
          details |-> Append(acc.details, <<"Secrets Leakage Detected">>)]
    ELSE acc

ScanTopics(acc, sc) ==
    IF sc.guard /\ sc.topics.kind = "invalid"
    THEN [risk_score |-> Max(acc.risk_score, 70000),
          details |-> Append(acc.details, <<"Banned Topic Detected">>)]
    ELSE acc

FirewallScore(fw) == IF fw.action = "BLOCK" THEN 100000 ELSE fw.risk_score

\* a faulty variant of ScanFirewall that fails closed when the firewall
\* raises
ScanFirewall_mut(acc, sc) ==
    IF sc.fw.kind = "error"
    THEN [risk_score |-> Max(acc.risk_score, 100000),
          details |-> Append(acc.details, <<"LlamaFirewall error">>)]
    ELSE LET fw_score == FirewallScore(sc.fw)
         IN  [risk_score |-> Max(acc.risk_score, fw_score),
              details |-> IF fw_score > 50000
                          THEN Append(acc.details, <<"LlamaFirewall flag", fw_score>>)
                          ELSE acc.details]

ScanFirewall(acc, sc) ==
    IF sc.fw.kind = "error" THEN acc
    ELSE LET fw_score == FirewallScore(sc.fw)
         IN  [risk_score |-> Max(acc.risk_score, fw_score),
              details |-> IF fw_score > 50000
                          THEN Append(acc.details, <<"LlamaFirewall flag", fw_score>>)
                          ELSE acc.details]

ScanOllama(acc, sc) ==
    LET score == _call_ollama_brain(sc.brain)
    IN  IF score > 50000
        THEN [risk_score |-> Max(acc.risk_score, score),
              details |-> Append(acc.details, <<"Ollama GLM-5 Block", score>>)]
        ELSE acc

bad_words == {<<"ignore", "previous">>, <<"system", "prompt">>, <<"bypass">>, <<"jailbreak">>}

\* bw in prompt.lower(), for a phrase bw of whole tokens
Contains(text, bw) ==
    \E i \in 1..Len(text) :
        /\ i + Len(bw) - 1 <= Len(text)
        /\ \A j \in 1..Len(bw) : text[i + j - 1] = bw[j]

KeywordHit(p) == \E bw \in bad_words : Contains(LowerText(p), bw)

ScanKeywords(acc, p) ==
    IF acc.risk_score = 0 /\ KeywordHit(p)
    THEN [risk_score |-> Max(acc.risk_score, 90000),
          details |-> Append(acc.details, <<"Fallback Keyword Match">>)]
    ELSE acc

\* a faulty variant of Decide that lets the boundary score through
Decide_mut(acc) ==
    [score |-> acc.risk_score,
     decision |-> IF acc.risk_score > 50000 THEN "BLOCK" ELSE "ALLOW",
     details |-> IF acc.details # <<>> THEN acc.details ELSE << <<"Clean">> >>]

Decide(acc) ==
    [score |-> acc.risk_score,
     decision |-> IF acc.risk_score >= 50000 THEN "BLOCK" ELSE "ALLOW",
     details |-> IF acc.details # <<>> THEN acc.details ELSE << <<"Clean">> >>]

\* the aggregate before the keyword fallback is considered
BeforeKeywords(sc) ==
    ScanOllama(
        ScanFirewall(
            ScanTopics(
                ScanSecrets(
                    ScanPromptInjection([risk_score |-> 0, details |-> <<>>], sc),
                    sc),
                sc),
            sc),
        sc)

evaluate_prompt(sc, p) == Decide(ScanKeywords(BeforeKeywords(sc), p))

(***************************************************************************)
(* backend/main.py: the audit log                                          *)
(***************************************************************************)
\* data[-20:]
LOG_CAP == 20

NumWorkers == 2
Workers == 1..NumWorkers

LastN(s, k) == IF Len(s) <= k THEN s ELSE SubSeq(s, Len(s) - k + 1, Len(s))

\* round(score, 4) of a score in 1e-5 units
Round4(s) == ((s + 5) \div 10) * 10

\* the file: absent, a JSON list of events, anything json.load or
\* data.append rejects (invalid or empty JSON, JSON that is no list), or a
\* path open(.., "r") fails on
AbsentStore == [kind |-> "absent", data |-> <<>>]
CorruptStore == [kind |-> "corrupt", data |-> <<>>]
UnreadableStore == [kind |-> "unreadable", data |-> <<>>]
ListStore(d) == [kind |-> "list", data |-> d]

\* how an open(LOG_FILE, "w") / json.dump pair ends: written, open raised
\* (file untouched), or dump raised after the truncation
WriteOutcomes == {"ok", "open_error", "dump_error"}
NoFaults == [w1 |-> "ok", w2 |-> "ok"]

MakeEvent(p, score, decision) ==
    [prompt |-> p, score |-> Round4(score), decision |-> decision]

\* lines 31-35: the load
LoadOk(st) == st.kind \in {"absent", "list"}
LoadData(st) == IF st.kind = "list" THEN st.data ELSE <<>>

\* one open-for-write and dump of payload d
WriteFile(st, d, w) ==
    CASE w = "ok" -> ListStore(d)
      [] w = "open_error" -> st
      [] w = "dump_error" -> CorruptStore

\* a faulty variant of log_event that keeps the oldest 20 events
log_event_mut(st, p, score, decision, io) ==
    LET event == MakeEvent(p, score, decision)
        try_ok == LoadOk(st) /\ io.w1 = "ok"
        after_try == IF LoadOk(st)
                     THEN WriteFile(st, LET data == Append(LoadData(st), event)
                                        IN  IF Len(data) <= LOG_CAP THEN data
                                            ELSE SubSeq(data, 1, LOG_CAP), io.w1)
                     ELSE st
    IN  IF try_ok
        THEN [store |-> after_try, raised |-> FALSE]
        ELSE [store |-> WriteFile(after_try, <<event>>, io.w2),
              raised |-> io.w2 # "ok"]

\* log_event(prompt, score, decision) on the file st; io is how the write
\* of the try block and the write of the except block end.  The result is
\* the file afterwards and whether an exception left log_event.
log_event(st, p, score, decision, io) ==
    LET event == MakeEvent(p, score, decision)
        try_ok == LoadOk(st) /\ io.w1 = "ok"
        after_try == IF LoadOk(st)
                     THEN WriteFile(st, LastN(Append(LoadData(st), event), LOG_CAP), io.w1)
                     ELSE st
    IN  IF try_ok
        THEN [store |-> after_try, raised |-> FALSE]
        ELSE [store |-> WriteFile(after_try, <<event>>, io.w2),
              raised |-> io.w2 # "ok"]

(***************************************************************************)
(* backend/state.py                                                        *)
(***************************************************************************)
POLICIES ==
    [promptInjection |-> TRUE, toolAccess |-> FALSE,
     humanApproval |-> TRUE, dataLeakage |-> TRUE]

GatewayIdle ==
    /\ policies = POLICIES
    /\ cache = {}
    /\ req = None
    /\ resp = None
    /\ calls = <<>>
    /\ upstream = <<>>
    /\ rlast = None
    /\ prev = None
    /\ nreq = 0

LogIdle ==
    /\ store = AbsentStore
    /\ appended = <<>>
    /\ logcall = None
    /\ faults = 0
    /\ wpc = [w \in Workers |-> "idle"]
    /\ wlocal = [w \in Workers |-> None]

(***************************************************************************)
(* SpecLog: log_event called again and again by one process, the file      *)
(* damaged from outside and writes failing now and then                    *)
(***************************************************************************)
MaxAppends == 25
MaxFaults == 2

\* the n-th event: its prompt is its arrival number
NthScore(n) == IF n % 2 = 1 THEN 49996 ELSE 100000
NthDecision(n) == IF n % 2 = 1 THEN "ALLOW" ELSE "BLOCK"

InitLog ==
    /\ LogIdle
    /\ GatewayIdle
    /\ InterceptorIdle
    /\ EngineIdle

LogEvent ==
    /\ Len(appended) < MaxAppends
    /\ \E io \in [w1 : WriteOutcomes, w2 : WriteOutcomes] :
         LET n == Len(appended) + 1
             out == log_event(store, n, NthScore(n), NthDecision(n), io)
             event == MakeEvent(n, NthScore(n), NthDecision(n))
         IN  \* the write of the except block happens only if the try block failed
             /\ (LoadOk(store) /\ io.w1 = "ok") => io.w2 = "ok"
             /\ (~LoadOk(store)) => io.w1 = "ok"
             /\ store' = out.store
             /\ appended' = Append(appended, event)
             /\ logcall' = [pre |-> store.kind, event |-> event, raised |-> out.raised]
             /\ faults' = IF io # NoFaults THEN faults + 1 ELSE faults
             /\ faults' <= MaxFaults
    /\ UNCHANGED <<interceptorVars, engineVars, writerVars, gatewayVars>>

\* the file is damaged or removed from outside the process
Damage ==
    /\ store.kind \in {"absent", "list"}
    /\ faults < MaxFaults
    /\ store' \in {CorruptStore, UnreadableStore}
    /\ faults' = faults + 1
    /\ UNCHANGED <<appended, logcall, interceptorVars, engineVars, writerVars, gatewayVars>>

NextLog == LogEvent \/ Damage

SpecLog == InitLog /\ [][NextLog]_vars

\* C7: after n appends without persistence failure the log holds exactly
\* the min(n, 20) most recent events, in arrival order, most recent last.
C7_LastTwenty ==
    faults = 0 =>
        /\ store.data = LastN(appended, LOG_CAP)
        /\ Len(store.data) <= LOG_CAP
        /\ Len(appended) > 0 => store.kind = "list"

\* 25 appends have happened without failure: the oldest 5 are gone
C7_Witness ==
    /\ faults = 0
    /\ Len(appended) = 25
    /\ Len(store.data) = 20
    /\ store.data[1].prompt = 6
    /\ store.data[20].prompt = 25

\* C9: with the store corrupt or unreadable at append time log_event
\* resets the store to exactly the new event and returns normally, and no
\* persistence failure ever leaves log_event as an exception.
C9_NeverPropagates ==
    logcall # None =>
        /\ logcall.pre \in {"corrupt", "unreadable"} =>
              /\ store = ListStore(<<logcall.event>>)
              /\ ~logcall.raised
        /\ ~logcall.raised

(***************************************************************************)
(* SpecLogWorkers: server worker processes sharing audit_log.json, each    *)
(* running log_event; the file operations of one call (load, open for      *)
(* write, dump) interleave with those of the others, since log_event       *)
(* takes no lock.  No write fails here.                                    *)
(***************************************************************************)
MaxWrites == 3

InitLogWorkers ==
    /\ LogIdle
    /\ GatewayIdle
    /\ InterceptorIdle
    /\ EngineIdle

\* lines 24-36: build the event, load the file, append
WLoad(w) ==
    /\ wpc[w] = "idle"
    /\ Len(appended) < MaxWrites
    /\ LET n == Len(appended) + 1
           event == MakeEvent(n, NthScore(n), NthDecision(n))
       IN  /\ appended' = Append(appended, event)
           /\ wlocal' = [wlocal EXCEPT ![w] =
                 IF LoadOk(store)
                 THEN [event |-> event, payload |-> LastN(Append(LoadData(store), event), LOG_CAP)]
                 ELSE [event |-> event, payload |-> <<event>>]]
    /\ wpc' = [wpc EXCEPT ![w] = "loaded"]
    /\ UNCHANGED <<store, logcall, faults, interceptorVars, engineVars, gatewayVars>>

\* lines 37 / 40: open(LOG_FILE, "w") empties the file
WOpen(w) ==
    /\ wpc[w] = "loaded"
    /\ store' = CorruptStore
    /\ wpc' = [wpc EXCEPT ![w] = "opened"]
    /\ UNCHANGED <<appended, logcall, faults, wlocal, interceptorVars, engineVars, gatewayVars>>

\* lines 38 / 41: json.dump and close.  The payload is written from offset
\* 0: over a file another worker has filled since the open it replaces the
\* content only if it is at least as long, and leaves a mixture otherwise.
WDump(w) ==
    /\ wpc[w] = "opened"
    /\ \/ store' = ListStore(wlocal[w].payload)
       \/ /\ store.kind = "list"
          /\ Len(store.data) >= Len(wlocal[w].payload)
          /\ store' = CorruptStore
    /\ wpc' = [wpc EXCEPT ![w] = "idle"]
    /\ wlocal' = [wlocal EXCEPT ![w] = None]
    /\ UNCHANGED <<appended, logcall, faults, interceptorVars, engineVars, gatewayVars>>

NextLogWorkers == \E w \in Workers : WLoad(w) \/ WOpen(w) \/ WDump(w)

SpecLogWorkers == InitLogWorkers /\ [][NextLogWorkers]_vars

\* C8: once the concurrent log_event calls have all returned, every one of
\* their events is in the log (fewer than 20 were appended here, so the cap
\* drops none).
C8_NoLostUpdate ==
    (\A w \in Workers : wpc[w] = "idle") /\ Len(appended) <= LOG_CAP =>
        \A i \in 1..Len(appended) :
            \E j \in 1..Len(store.data) : store.data[j] = appended[i]

(***************************************************************************)
(* backend/bifrost.py: the provider router                                 *)
(***************************************************************************)
\* lines 31-58: the model, and the fallback models, of an alias; None where
\* neither branch binds them
RouteOf(model_name) ==
    CASE model_name = "glm-5:cloud" ->
            [model |-> "ollama/glm-5:cloud", fallbacks |-> <<"ollama/llama3">>]
      [] model_name = "m2.5" ->
            [model |-> "MiniMax-M2.5", fallbacks |-> <<"ollama/glm-5:cloud">>]
      [] OTHER -> None

CacheKeys(c) == {e.key : e \in c}
CacheText(c, key) == (CHOOSE e \in c : e.key = key).text
CachePut(c, key, text) == {e \in c : e.key # key} \cup {[key |-> key, text |-> text]}

\* the first candidate whose call succeeds, 0 if none does; up[i] is what
\* the i-th candidate answers when called: "fail" or a text
FirstOk(up) ==
    IF \E i \in 1..Len(up) : up[i] # "fail"
    THEN CHOOSE i \in 1..Len(up) : up[i] # "fail" /\ \A j \in 1..(i - 1) : up[j] = "fail"
    ELSE 0

\* litellm.completion(model, messages, fallbacks, caching, temperature):
\* the cache is looked up under the primary model's key; on a miss the
\* candidates [model] + fallbacks are called in order, and the first
\* answer is stored under the key of the candidate that gave it.  When
\* every candidate fails the error of the last one is raised.  temperature
\* is the temperature the provider calls carry.
litellm_completion(c, model, text, fallbacks, caching, temperature, up) ==
    LET key == <<model, text, temperature>>
        candidates == <<model>> \o fallbacks
        k == FirstOk(up)
    IN  IF caching /\ key \in CacheKeys(c)
        THEN [ok |-> TRUE, content |-> CacheText(c, key), error |-> <<>>,
              cache |-> c, upstream |-> <<>>, cache_hit |-> TRUE,
              temperature |-> temperature]
        ELSE IF k = 0
        THEN [ok |-> FALSE, content |-> "",
              error |-> <<"error of", candidates[Len(candidates)]>>,
              cache |-> c, upstream |-> candidates, cache_hit |-> FALSE,
              temperature |-> temperature]
        ELSE [ok |-> TRUE, content |-> up[k], error |-> <<>>,
              cache |-> IF caching
                        THEN CachePut(c, <<candidates[k], text, temperature>>, up[k])
                        ELSE c,
              upstream |-> SubSeq(candidates, 1, k), cache_hit |-> FALSE,
              temperature |-> temperature]

\* lines 60-62 with no branch of lines 31-58 taken: the f-string reads the
\* unbound local model, and the UnboundLocalError is re-raised at line 85
UnboundModel(c) ==
    [ok |-> FALSE, content |-> "", error |-> <<"UnboundLocalError", "model">>,
     cache |-> c, upstream |-> <<>>, cache_hit |-> FALSE, temperature |-> "none"]

\* a faulty variant of evaluate that calls litellm with caching off
evaluate_mut(c, text, model_name, up) ==
    LET route == RouteOf(model_name)
    IN  IF route = None
        THEN UnboundModel(c)
        ELSE litellm_completion(c, route.model, text, route.fallbacks, FALSE, "0.7", up)

\* a faulty variant of evaluate that hands litellm the fallback as the
\* model and the model as the fallback
evaluate_swapped(c, text, model_name, up) ==
    LET route == RouteOf(model_name)
    IN  IF route = None
        THEN UnboundModel(c)
        ELSE litellm_completion(c, route.fallbacks[1], text, <<route.model>>, TRUE, "0.7", up)

\* BifrostGateway.evaluate(prompt, model_name) on the cache c
evaluate(c, text, model_name, up) ==
    LET route == RouteOf(model_name)
    IN  IF route = None
        THEN UnboundModel(c)
        ELSE litellm_completion(c, route.model, text, route.fallbacks, TRUE, "0.7", up)

Aliases == {"glm-5:cloud", "m2.5", "gpt-4"}
Temperatures == {"0.7", "0.2"}
Answers == {"fail", "answer-1", "answer-2"}
RouterPrompts == {<<"acct123">>, <<"transfer", "$500", "to", "acct123">>}

\* a faulty variant of bifrost_chat_proxy that answers 200 whatever
\* evaluate does
bifrost_chat_proxy_mut(c, p, model, up) ==
    LET r == evaluate(c, p, model, up)
    IN  [resp |-> [status |-> 200, content |-> r.content, detail |-> <<>>],
         cache |-> r.cache, upstream |-> r.upstream, temperature |-> r.temperature]

\* bifrost_chat_proxy(req): the response, and what evaluate did to the
\* cache and the providers.  req.temperature is not read.
bifrost_chat_proxy(c, p, model, up) ==
    LET r == evaluate(c, p, model, up)
    IN  [resp |-> IF r.ok
                  THEN [status |-> 200, content |-> r.content, detail |-> <<>>]
                  ELSE [status |-> 500, content |-> "", detail |-> r.error],
         cache |-> r.cache, upstream |-> r.upstream, temperature |-> r.temperature]

\* POST /bifrost/v1/chat/completions with a BifrostRequest; up[i] is what
\* the i-th candidate answers if it is called
BifrostChatProxy(aliases, prompts, temperatures, bound) ==
    /\ nreq < bound
    /\ \E model \in aliases, p \in prompts, t \in temperatures, up \in [1..2 -> Answers] :
         LET o == bifrost_chat_proxy(cache, p, model, up)
         IN  /\ req' = [endpoint |-> "/bifrost/v1/chat/completions",
                        model |-> model, prompt |-> p, temperature |-> t]
             /\ resp' = o.resp
             /\ cache' = o.cache
             /\ upstream' = o.upstream
             /\ calls' = <<"router">>
             /\ rlast' = [req |-> req', resp |-> resp', upstream |-> o.upstream,
                          answers |-> SubSeq(up, 1, Len(o.upstream)),
                          temperature |-> o.temperature]
    /\ prev' = rlast
    /\ nreq' = nreq + 1
    /\ UNCHANGED <<interceptorVars, engineVars, logVars, writerVars, policies>>

(***************************************************************************)
(* SpecRouter: a series of model-proxy requests                            *)
(***************************************************************************)
MaxCalls == 3

InitRouter ==
    /\ GatewayIdle
    /\ LogIdle
    /\ InterceptorIdle
    /\ EngineIdle

NextRouter == BifrostChatProxy(Aliases, RouterPrompts, Temperatures, MaxCalls)

SpecRouter == InitRouter /\ [][NextRouter]_vars

SameAsPrevious == prev # None /\ rlast.req = prev.req

\* the statement of C10 as the specification words it: any two consecutive
\* identical calls make exactly one upstream invocation between them
C10_Original ==
    SameAsPrevious =>
        /\ Len(prev.upstream) + Len(rlast.upstream) = 1
        /\ rlast.upstream = <<>>
        /\ rlast.resp.status = 200
        /\ rlast.resp.content = prev.resp.content

\* C10: of two consecutive Router calls with the same alias, prompt and
\* temperature, the first of which missed the cache and was answered by its
\* primary target, the second is answered from the cache with the same
\* text and calls no provider: one upstream invocation in all.
C10_SecondFromCache ==
    (/\ SameAsPrevious
     /\ prev.resp.status = 200
     /\ prev.upstream = <<RouteOf(prev.req.model).model>>)
    => /\ rlast.upstream = <<>>
       /\ rlast.resp.status = 200
       /\ rlast.resp.content = prev.resp.content
       /\ Len(prev.upstream) + Len(rlast.upstream) = 1

\* the same request twice, the first answered by the primary target, the
\* second without any upstream call
C10_Witness ==
    /\ SameAsPrevious
    /\ rlast.req.model = "glm-5:cloud"
    /\ prev.upstream = <<"ollama/glm-5:cloud">>
    /\ rlast.upstream = <<>>
    /\ rlast.resp.status = 200

\* the candidate chain of the last call's alias
ChainOf(model_name) == <<RouteOf(model_name).model>> \o RouteOf(model_name).fallbacks

\* the cache keys that name the model m and the text p
KeysOf(c, m, p) == {key \in CacheKeys(c) : key[1] = m /\ key[2] = p}

\* C11: a call that missed the cache and succeeded called the candidates in
\* the order [primary target] + fallbacks up to the first that answered,
\* returned that candidate's answer and left it in the cache under that
\* candidate's key, with no entry under the key of a candidate that failed.
C11_FirstSuccessCached ==
    (rlast # None /\ rlast.upstream # <<>> /\ rlast.resp.status = 200) =>
        LET chain == ChainOf(rlast.req.model)
            k == Len(rlast.upstream)
        IN  /\ rlast.upstream = SubSeq(chain, 1, k)
            /\ \A i \in 1..(k - 1) : rlast.answers[i] = "fail"
            /\ rlast.answers[k] # "fail"
            /\ rlast.resp.content = rlast.answers[k]
            /\ KeysOf(cache, chain[k], rlast.req.prompt) # {}
            /\ \A key \in KeysOf(cache, chain[k], rlast.req.prompt) :
                  CacheText(cache, key) = rlast.resp.content
            /\ \A i \in 1..(k - 1) : KeysOf(cache, chain[i], rlast.req.prompt) = {}

\* the chain [A fails, B succeeds]: the primary target of glm-5:cloud
\* failed and its fallback answered
C11_Witness ==
    /\ rlast # None
    /\ rlast.req.model = "glm-5:cloud"
    /\ rlast.upstream = <<"ollama/glm-5:cloud", "ollama/llama3">>
    /\ rlast.answers = <<"fail", "answer-2">>
    /\ rlast.resp.status = 200

\* C12: a call in which every candidate of the chain was called and failed
\* answers 500 with the last candidate's error as detail, returns no text
\* and leaves the cache as it was.
C12_AllFail ==
    [][(/\ rlast' # rlast
        /\ Len(rlast'.upstream) = 2
        /\ \A i \in 1..2 : rlast'.answers[i] = "fail")
       => /\ resp'.status = 500
          /\ resp'.detail = <<"error of", ChainOf(req'.model)[2]>>
          /\ resp'.content = ""
          /\ cache' = cache]_vars

\* every candidate failed for a call made after an earlier call had filled
\* the cache
C12_Witness ==
    /\ rlast # None
    /\ rlast.resp.status = 500
    /\ rlast.answers = <<"fail", "fail">>
    /\ cache # {}

\* C13: a call naming an alias outside the route table answers with a
\* not-found status, unlike an upstream failure, and calls no provider.
C13_UnknownAliasNotFound ==
    (rlast # None /\ rlast.req.model \notin {"glm-5:cloud", "m2.5"}) =>
        /\ rlast.resp.status = 404
        /\ rlast.upstream = <<>>

\* C14: a provider is called with the temperature of the request, and a
\* call whose alias and prompt equal the previous call's and whose
\* temperature differs is not answered from the previous call's cache entry.
C14_TemperatureInKey ==
    /\ (rlast # None /\ rlast.upstream # <<>>) =>
          rlast.temperature = rlast.req.temperature
    /\ (/\ prev # None
        /\ rlast.req.model = prev.req.model
        /\ rlast.req.model \in {"glm-5:cloud", "m2.5"}
        /\ rlast.req.prompt = prev.req.prompt
        /\ rlast.req.temperature # prev.req.temperature)
       => rlast.upstream # <<>>

(***************************************************************************)
(* backend/main.py: the HTTP handlers. A handler is an async function     *)
(* that never awaits, so within one server process it runs from its first  *)
(* line to its response without another handler in between.                *)
(***************************************************************************)
\* ExecutionEnvironment.execute_command never raises: it returns the
\* sandbox output, the mock output or the error text
execute_command(command) == <<"Executed:">> \o command

\* what a handler leaves behind: the response, the components it invoked,
\* the audit file, the event it logged and whether log_event raised, the
\* engine's and interceptor's results, and the text it handed to
\* evaluate_prompt (None if it did not call it)
Outcome(status, detail, body, invoked, lg, event, r, ir, scored) ==
    [resp |-> [status |-> status, detail |-> detail, content |-> body],
     calls |-> invoked, store |-> lg.store, event |-> event, raised |-> lg.raised,
     result |-> r, iresult |-> ir, prompt |-> scored]

\* a faulty variant of security_gateway that runs the command before it looks at
\* the decision
security_gateway_mut(st, p, sc, io) ==
    LET r == evaluate_prompt(sc, p)
        lg == log_event(st, p, r.score, r.decision, io)
        event == MakeEvent(p, r.score, r.decision)
    IN  IF lg.raised
        THEN Outcome(500, <<"Internal Server Error">>, <<>>, <<"engine", "audit">>, lg, event, r, None, p)
        ELSE IF r.decision = "BLOCK"
        THEN Outcome(403, <<"Security Block:", r.details>>, <<>>,
                     <<"engine", "audit", "executor">>, lg, event, r, None, p)
        ELSE Outcome(200, r.details, execute_command(p),
                     <<"engine", "audit", "executor">>, lg, event, r, None, p)

\* POST /gateway
security_gateway(st, p, sc, io) ==
    LET r == evaluate_prompt(sc, p)
        lg == log_event(st, p, r.score, r.decision, io)
        event == MakeEvent(p, r.score, r.decision)
    IN  IF lg.raised
        THEN Outcome(500, <<"Internal Server Error">>, <<>>, <<"engine", "audit">>, lg, event, r, None, p)
        ELSE IF r.decision = "BLOCK"
        THEN Outcome(403, <<"Security Block:", r.details>>, <<>>,
                     <<"engine", "audit">>, lg, event, r, None, p)
        ELSE Outcome(200, r.details, execute_command(p),
                     <<"engine", "audit", "executor">>, lg, event, r, None, p)

\* a faulty variant of validate_request that answers a blocked request
\* without logging it
validate_request_mut(st, p, sc, io) ==
    LET r == evaluate_prompt(sc, p)
        lg == log_event(st, p, r.score, r.decision, io)
        event == MakeEvent(p, r.score, r.decision)
    IN  IF r.decision = "BLOCK"
        THEN Outcome(403, <<"Security Block:", r.details>>, <<>>,
                     <<"engine">>, [store |-> st, raised |-> FALSE], event, r, None, p)
        ELSE IF lg.raised
        THEN Outcome(500, <<"Internal Server Error">>, <<>>, <<"engine", "audit">>, lg, event, r, None, p)
        ELSE Outcome(200, r.details, <<"ALLOW">>, <<"engine", "audit">>, lg, event, r, None, p)

\* POST /api/validate
validate_request(st, p, sc, io) ==
    LET r == evaluate_prompt(sc, p)
        lg == log_event(st, p, r.score, r.decision, io)
        event == MakeEvent(p, r.score, r.decision)
    IN  IF lg.raised
        THEN Outcome(500, <<"Internal Server Error">>, <<>>, <<"engine", "audit">>, lg, event, r, None, p)
        ELSE IF r.decision = "BLOCK"
        THEN Outcome(403, <<"Security Block:", r.details>>, <<>>,
                     <<"engine", "audit">>, lg, event, r, None, p)
        ELSE Outcome(200, r.details, <<"ALLOW">>, <<"engine", "audit">>, lg, event, r, None, p)

\* f"[{source_agent}->{target_agent}] {text[:50]}..."
AgentLogPrompt(src, tgt, text) == <<"[", src, "->", tgt, "]">> \o Slice(text, 50) \o <<"...">>

\* POST /api/agent-message; dispatch is how subprocess.run ends: it returns
\* ("ok"), raises TimeoutExpired ("timeout") or raises another exception
\* ("error": ValueError for a NUL in the payload, OSError for a payload
\* longer than the argument limit or a missing interpreter), which no
\* except clause catches
route_agent_message(st, src, tgt, payload, sc, io, dispatch) ==
    LET ir == intercept_and_clean(payload)
    IN  IF ~ir.allowed
        THEN LET lg == log_event(st, AgentLogPrompt(src, tgt, payload), 100000, "BLOCK", io)
                 event == MakeEvent(AgentLogPrompt(src, tgt, payload), 100000, "BLOCK")
             IN  IF lg.raised
                 THEN Outcome(500, <<"Internal Server Error">>, <<>>,
                              <<"interceptor", "audit">>, lg, event, None, ir, None)
                 ELSE Outcome(403, <<"Interceptor Block:", ir.blocked_reason>>, <<>>,
                              <<"interceptor", "audit">>, lg, event, None, ir, None)
        ELSE LET cleaned_payload == ir.redacted_content
                 engine_prompt == <<"Analyze", "this", "compliance", "data:">>
                                  \o Slice(cleaned_payload, 500)
                 r == evaluate_prompt(sc, engine_prompt)
                 lg == log_event(st, AgentLogPrompt(src, tgt, cleaned_payload),
                                 r.score, r.decision, io)
                 event == MakeEvent(AgentLogPrompt(src, tgt, cleaned_payload),
                                    r.score, r.decision)
             IN  IF lg.raised
                 THEN Outcome(500, <<"Internal Server Error">>, <<>>,
                              <<"interceptor", "engine", "audit">>, lg, event, r, ir, engine_prompt)
                 ELSE IF r.decision = "BLOCK"
                 THEN Outcome(403, <<"Security Engine Block:", r.details>>, <<>>,
                              <<"interceptor", "engine", "audit">>, lg, event, r, ir, engine_prompt)
                 ELSE IF tgt = "validator"
                 THEN IF dispatch = "timeout"
                      THEN Outcome(504, <<"Target agent timed out">>, <<>>,
                                   <<"interceptor", "engine", "audit", "agent">>, lg, event, r, ir, engine_prompt)
                      ELSE IF dispatch = "error"
                      THEN Outcome(500, <<"Internal Server Error">>, <<>>,
                                   <<"interceptor", "engine", "audit", "agent">>, lg, event, r, ir, engine_prompt)
                      ELSE Outcome(200, <<"Message successfully routed and processed">>,
                                   cleaned_payload,
                                   <<"interceptor", "engine", "audit", "agent">>, lg, event, r, ir, engine_prompt)
                 ELSE Outcome(404, <<"Target agent", tgt, "not found">>, <<>>,
                              <<"interceptor", "engine", "audit">>, lg, event, r, ir, engine_prompt)

(***************************************************************************)
(* backend/main.py: the SQL firewall                                       *)
(***************************************************************************)
SqlVocabulary ==
    {"SELECT", "*", "FROM", "users", "orders", "superusers", "Drop", "updated_at"}

MaxSqlTokens == 3

SqlQueries == UNION {[1..n -> SqlVocabulary] : n \in 0..MaxSqlTokens}

\* str.upper() on one token
SqlUpper(t) ==
    CASE t = "users" -> "USERS"
      [] t = "orders" -> "ORDERS"
      [] t = "superusers" -> "SUPERUSERS"
      [] t = "Drop" -> "DROP"
      [] t = "updated_at" -> "UPDATED_AT"
      [] OTHER -> t

\* needle in T for an upper-cased token T: the substring test of Python's
\* in operator.  No needle holds a space, so none lies across two tokens.
SqlSubstring(needle, T) ==
    CASE needle = "USERS" -> T \in {"USERS", "SUPERUSERS"}
      [] needle = "DROP" -> T = "DROP"
      [] needle = "UPDATE" -> T = "UPDATED_AT"
      [] OTHER -> FALSE

\* needle in request.query.upper()
SqlIn(needle, q) == \E i \in 1..Len(q) : SqlSubstring(needle, SqlUpper(q[i]))

DestructiveCommands == <<"DROP", "DELETE", "TRUNCATE", "INSERT", "UPDATE">>

\* f"[{request.agent_id}] SQL Query: {request.query[:100]}"
SqlLogPrompt(agent_id, q) == <<"[", agent_id, "]", "SQL", "Query:">> \o Slice(q, 100)

\* POST /api/validate-sql
validate_sql(st, q, agent_id, io) ==
    LET restricted == SqlIn("USERS", q)
        destructive == \E i \in 1..Len(DestructiveCommands) : SqlIn(DestructiveCommands[i], q)
        is_blocked == restricted \/ destructive
        block_reason == IF restricted
                        THEN "Restricted Table Access ('users' table is blocked)"
                        ELSE IF destructive
                        THEN "Destructive/State-modifying SQL Command blocked"
                        ELSE ""
        score == IF is_blocked THEN 100000 ELSE 0
        decision == IF is_blocked THEN "BLOCK" ELSE "ALLOW"
        lg == log_event(st, SqlLogPrompt(agent_id, q), score, decision, io)
        event == MakeEvent(SqlLogPrompt(agent_id, q), score, decision)
    IN  IF lg.raised
        THEN Outcome(500, <<"Internal Server Error">>, <<>>, <<"audit">>, lg, event, None, None, None)
        ELSE IF is_blocked
        THEN Outcome(403, <<"Database Firewall Block:", block_reason>>, <<>>,
                     <<"audit">>, lg, event, None, None, None)
        ELSE Outcome(200, <<"SQL query safely analyzed and permitted.">>, <<"ALLOW">>,
                     <<"audit">>, lg, event, None, None, None)

\* the requests of the gateway specification
\* "x{480}" is a word of 480 letters: the third text is 507 characters
\* long, 504 once the card number is redacted
GatewayTexts ==
    {<<"acct123">>, <<"transfer", "$500", "to", "acct123">>,
     <<"x{480}", "4111111111111111", "Jailbreak">>}

GatewaySqlQueries ==
    {<<"SELECT", "*", "FROM", "users">>, <<"SELECT", "*", "FROM", "orders">>}

GatewayScans ==
    {sc \in Scans :
        /\ sc.guard
        /\ sc.pi.kind = "valid" \/ (sc.pi.kind = "invalid" /\ sc.pi.score \in {49996, 50000})
        /\ sc.secrets.kind = "valid"
        /\ sc.topics.kind = "valid"
        /\ sc.fw.kind = "error"
        /\ sc.brain.kind = "no_key"}

GatewayIO == {NoFaults, [w1 |-> "open_error", w2 |-> "open_error"]}

MaxRequests == 2

\* a handler's outcome o for the request r becomes the state
Respond(r, o) ==
    /\ nreq < MaxRequests
    /\ req' = r
    /\ resp' = o.resp
    /\ calls' = o.calls
    /\ store' = o.store
    /\ appended' = Append(appended, o.event)
    /\ logcall' = [pre |-> store.kind, event |-> o.event, raised |-> o.raised]
    /\ result' = o.result
    /\ iresult' = o.iresult
    /\ prompt' = o.prompt
    /\ upstream' = <<>>
    /\ nreq' = nreq + 1
    /\ UNCHANGED <<content, scan, ollama_score, faults, writerVars,
                   cache, rlast, prev, policies>>

SecurityGateway ==
    \E p \in GatewayTexts, sc \in GatewayScans, io \in GatewayIO :
        Respond([endpoint |-> "/gateway", prompt |-> p],
                security_gateway(store, p, sc, io))

ValidateRequest ==
    \E p \in GatewayTexts, sc \in GatewayScans, io \in GatewayIO :
        Respond([endpoint |-> "/api/validate", prompt |-> p],
                validate_request(store, p, sc, io))

DispatchOutcomes == {"ok", "timeout", "error"}

\* the request record of an agent message; dispatch is how the dispatch
\* of this request ended, "none" if the handler never reached it
AgentRequestOf(tgt, p, o, dispatch) ==
    [endpoint |-> "/api/agent-message", source_agent |-> "collector",
     target_agent |-> tgt, prompt |-> p,
     dispatch |-> IF \E i \in 1..Len(o.calls) : o.calls[i] = "agent"
                  THEN dispatch ELSE "none"]

\* the target named and how its dispatch ends; a target other than the
\* validator is never dispatched to
GatewayDispatches ==
    {<<"validator", d>> : d \in DispatchOutcomes} \cup {<<"planner", "ok">>}

RouteAgentMessage ==
    \E td \in GatewayDispatches, p \in GatewayTexts, sc \in GatewayScans, io \in GatewayIO :
        LET o == route_agent_message(store, "collector", td[1], p, sc, io, td[2])
        IN  Respond(AgentRequestOf(td[1], p, o, td[2]), o)

GatewayValidateSql ==
    \E q \in GatewaySqlQueries, io \in GatewayIO :
        Respond([endpoint |-> "/api/validate-sql", prompt |-> q,
                 agent_id |-> "Database Guardian"],
                validate_sql(store, q, "Database Guardian", io))

(***************************************************************************)
(* Spec: the gateway serving a series of requests                          *)
(***************************************************************************)
Init ==
    /\ GatewayIdle
    /\ LogIdle
    /\ InterceptorIdle
    /\ EngineIdle

Next ==
    \/ SecurityGateway
    \/ ValidateRequest
    \/ RouteAgentMessage
    \/ GatewayValidateSql
    \/ BifrostChatProxy({"glm-5:cloud"}, {<<"transfer", "$500", "to", "acct123">>},
                        {"0.7"}, MaxRequests)

Spec == Init /\ [][Next]_vars

Invoked(c) == \E i \in 1..Len(calls) : calls[i] = c
InvokedBefore(a, b) ==
    \E i \in 1..Len(calls) : calls[i] = a /\ \A j \in 1..i : calls[j] # b

\* C5: the sandbox executor runs only for a /gateway request the Risk
\* Aggregator allowed, the downstream agent only for an agent message the
\* Interceptor and the Aggregator both allowed, and /api/validate runs
\* neither.
C5_NoExecutionWithoutAllow ==
    /\ Invoked("executor") =>
          /\ req.endpoint = "/gateway"
          /\ InvokedBefore("engine", "executor")
          /\ result.decision = "ALLOW"
    /\ Invoked("agent") =>
          /\ req.endpoint = "/api/agent-message"
          /\ InvokedBefore("interceptor", "agent")
          /\ InvokedBefore("engine", "agent")
          /\ iresult.allowed
          /\ result.decision = "ALLOW"
    /\ (req # None /\ req.endpoint = "/api/validate") =>
          ~Invoked("executor") /\ ~Invoked("agent")

\* the executor ran for an allowed /gateway request, after an earlier
\* request was blocked and logged
C5_Witness ==
    /\ Invoked("executor")
    /\ result.decision = "ALLOW"
    /\ Len(appended) = 2
    /\ appended[1].decision = "BLOCK"

\* the event of the last request is the last entry of the audit file
LastEventStored ==
    /\ store.kind = "list"
    /\ store.data # <<>>
    /\ appended # <<>>
    /\ store.data[Len(store.data)] = appended[Len(appended)]

\* C17: an agent message is answered 403 when the Interceptor blocks it
\* (the Aggregator and the target are then not invoked), else 403 when the
\* Aggregator blocks it, else 404 when the target is not a known agent,
\* else 504 when the dispatch times out, and 200 with the cleaned payload
\* in every other case; no other status is ever answered.  Stated for the
\* requests whose audit event was stored.
C17_AgentMessageOutcomes ==
    (req # None /\ req.endpoint = "/api/agent-message" /\ LastEventStored) =>
        /\ resp.status \in {200, 403, 404, 504}
        /\ resp.status =
              IF ~iresult.allowed THEN 403
              ELSE IF result.decision = "BLOCK" THEN 403
              ELSE IF req.target_agent # "validator" THEN 404
              ELSE IF req.dispatch = "timeout" THEN 504
              ELSE 200
        /\ ~iresult.allowed => ~Invoked("engine") /\ ~Invoked("agent")
        /\ resp.status = 200 => Invoked("agent") /\ resp.content = iresult.redacted_content

AuditedEndpoints == {"/gateway", "/api/validate", "/api/agent-message", "/api/validate-sql"}

\* C23: in every audit event the gateway wrote, on each of the four
\* writing paths, the decision is BLOCK exactly when the recorded score,
\* the score rounded to 4 decimals, is at least 0.5.
C23_EventConsistent ==
    /\ \A i \in 1..Len(appended) :
          appended[i].decision = "BLOCK" <=> appended[i].score >= 50000
    /\ store.kind = "list" =>
          \A i \in 1..Len(store.data) :
              store.data[i].decision = "BLOCK" <=> store.data[i].score >= 50000

\* how often the component c occurs in the call sequence cs, and whether
\* a occurs in it before the first b
TimesIn(cs, c) == Cardinality({i \in 1..Len(cs) : cs[i] = c})
BeforeIn(cs, a, b) == \E i \in 1..Len(cs) : cs[i] = a /\ \A j \in 1..i : cs[j] # b

C25_DispatchedTextScored ==
    (/\ req # None
     /\ req.endpoint = "/api/agent-message"
     /\ resp.status = 200) =>
        /\ resp.content = redact_sensitive_data(req.prompt)
        /\ \A i \in 1..Len(resp.content) : ~CREDIT_CARD_PATTERN(resp.content[i])
        /\ prompt = <<"Analyze", "this", "compliance", "data:">> \o resp.content

\* C6: every request class passes the Interceptor and then the Aggregator
\* before an executor, the downstream agent or the Router is invoked, so a
\* prompt holding a transfer phrase is blocked on each path.
C6_EveryPathScreened ==
    req # None =>
        /\ \A c \in {"executor", "agent", "router"} :
              Invoked(c) => InvokedBefore("interceptor", c) /\ InvokedBefore("engine", c)
        /\ HasTransferPhrase(req.prompt) =>
              /\ resp.status = 403
              /\ \A c \in {"executor", "agent", "router"} : ~Invoked(c)

(***************************************************************************)
(* SpecSql: one query sent to the SQL firewall                             *)
(***************************************************************************)
ValidateSql ==
    /\ nreq = 0
    /\ \E q \in SqlQueries, io \in GatewayIO :
          Respond([endpoint |-> "/api/validate-sql", prompt |-> q,
                   agent_id |-> "Database Guardian"],
                  validate_sql(store, q, "Database Guardian", io))

InitSql ==
    /\ GatewayIdle
    /\ LogIdle
    /\ InterceptorIdle
    /\ EngineIdle

NextSql == ValidateSql

SpecSql == InitSql /\ [][NextSql]_vars

\* a query references the table users when one of its words is users, and
\* holds a destructive verb when one of its words is one, in any case
ReferencesUsers(q) == \E i \in 1..Len(q) : SqlUpper(q[i]) = "USERS"
HasDestructiveVerb(q) ==
    \E i \in 1..Len(q), j \in 1..Len(DestructiveCommands) :
        SqlUpper(q[i]) = DestructiveCommands[j]

\* C15: a query is answered 403 exactly when it references the table users
\* or holds a destructive verb, with the restricted-table reason whenever
\* it references users; SELECT * FROM users is blocked and SELECT * FROM
\* orders is allowed.
C15_SqlFirewall ==
    (req # None /\ resp.status # 500) =>
        /\ resp.status = 403 <=> (ReferencesUsers(req.prompt) \/ HasDestructiveVerb(req.prompt))
        /\ ReferencesUsers(req.prompt) =>
              resp.detail = <<"Database Firewall Block:",
                              "Restricted Table Access ('users' table is blocked)">>
        /\ req.prompt = <<"SELECT", "*", "FROM">> \o <<"users">> => resp.status = 403
        /\ req.prompt = <<"SELECT", "*", "FROM">> \o <<"orders">> => resp.status = 200

(***************************************************************************)
(* SpecPolicies: a series of policy updates                                *)
(***************************************************************************)
PolicyNames == {"promptInjection", "toolAccess", "humanApproval", "dataLeakage"}
PolicyInputs == PolicyNames \cup {"", "ToolAccess", "rateLimit"}

\* a faulty variant of update_policy_api that stores whatever name it is
\* given
update_policy_api_mut(pol, policy, value) ==
    [policies |-> [n \in DOMAIN pol \cup {policy} |->
                      IF n = policy THEN value ELSE pol[n]],
     resp |-> [status |-> 200, content |-> <<"success", policy, value>>, detail |-> <<>>]]

\* POST /api/policies with PolicyUpdate(policy, value) on the dictionary pol
update_policy_api(pol, policy, value) ==
    IF policy \in DOMAIN pol
    THEN [policies |-> [pol EXCEPT ![policy] = value],
          resp |-> [status |-> 200, content |-> <<"success", policy, value>>, detail |-> <<>>]]
    ELSE [policies |-> pol,
          resp |-> [status |-> 404, content |-> <<>>, detail |-> <<"Policy not found">>]]

MaxPolicyUpdates == 3

UpdatePolicy ==
    /\ nreq < MaxPolicyUpdates
    /\ \E policy \in PolicyInputs, value \in BOOLEAN :
          LET o == update_policy_api(policies, policy, value)
          IN  /\ req' = [endpoint |-> "/api/policies", policy |-> policy, value |-> value]
              /\ resp' = o.resp
              /\ policies' = o.policies
    /\ calls' = <<>>
    /\ upstream' = <<>>
    /\ nreq' = nreq + 1
    /\ UNCHANGED <<interceptorVars, engineVars, logVars, writerVars, cache, rlast, prev>>

InitPolicies ==
    /\ GatewayIdle
    /\ LogIdle
    /\ InterceptorIdle
    /\ EngineIdle

NextPolicies == UpdatePolicy

SpecPolicies == InitPolicies /\ [][NextPolicies]_vars

\* C16: before and after every update the policy names are the four
\* startup names; an update naming one of them answers success and changes
\* that flag to the given value and no other; an update naming anything
\* else answers 404 and changes nothing.
C16_PolicyFrame ==
    [][/\ DOMAIN policies = PolicyNames
       /\ DOMAIN policies' = PolicyNames
       /\ req'.policy \in PolicyNames =>
             /\ resp'.status = 200
             /\ policies'[req'.policy] = req'.value
             /\ \A n \in PolicyNames \ {req'.policy} : policies'[n] = policies[n]
       /\ req'.policy \notin PolicyNames =>
             /\ resp'.status = 404
             /\ policies' = policies]_vars

\* the second or a later update set toolAccess, off at startup, to true
C16_Witness ==
    /\ nreq >= 2
    /\ req.policy = "toolAccess"
    /\ resp.status = 200
    /\ policies # POLICIES
    /\ policies.toolAccess

(***************************************************************************)
(* SpecStats: GET /api/stats between the appends of a growing log          *)
(***************************************************************************)
\* the status of each record of AGENTS
AGENTS ==
    <<[id |-> "ag-01", status |-> "Active"], [id |-> "ag-02", status |-> "Active"],
      [id |-> "ag-03", status |-> "Suspended"], [id |-> "ag-04", status |-> "Active"]>>

IsBlocked(log) == log.decision = "BLOCK"
IsHighRisk(log) == log.score >= 80000 /\ log.decision = "BLOCK"
IsActive(agent) == agent.status = "Active"

\* sum(1 for log in logs if ...)
CountBlocked(logs) == Cardinality({i \in 1..Len(logs) : IsBlocked(logs[i])})
CountHighRisk(logs) == Cardinality({i \in 1..Len(logs) : IsHighRisk(logs[i])})
CountActive(agents) == Cardinality({i \in 1..Len(agents) : IsActive(agents[i])})

get_stats(logs) ==
    [totalRequests |-> Len(logs) + 1420,
     blockedRequests |-> CountBlocked(logs) + 85,
     activeAgents |-> CountActive(AGENTS),
     highRiskAlerts |-> CountHighRisk(logs) + 12]

\* get_all_logs() on the file st: the list in it, [] when there is no file
\* or reading it raises
get_all_logs(st) == IF st.kind = "list" THEN st.data ELSE <<>>

get_stats_api(st) == get_stats(get_all_logs(st))

MaxStatsAppends == 22
MaxStatsCalls == 2

\* the n-th event logged: allowed, blocked at 0.7, blocked at 1.0, in turn
StatsScore(n) == CASE n % 3 = 1 -> 0 [] n % 3 = 2 -> 70000 [] OTHER -> 100000
StatsDecision(n) == IF n % 3 = 1 THEN "ALLOW" ELSE "BLOCK"

\* a request handler logs its event
LogStatsEvent ==
    /\ Len(appended) < MaxStatsAppends
    /\ LET n == Len(appended) + 1
            out == log_event(store, n, StatsScore(n), StatsDecision(n), NoFaults)
       IN  /\ store' = out.store
           /\ appended' = Append(appended, MakeEvent(n, StatsScore(n), StatsDecision(n)))
    /\ UNCHANGED <<logcall, faults, interceptorVars, engineVars, writerVars, gatewayVars>>

\* GET /api/stats
GetStatsApi ==
    /\ nreq < MaxStatsCalls
    /\ req' = [endpoint |-> "/api/stats"]
    /\ resp' = [status |-> 200, content |-> get_stats_api(store), detail |-> <<>>]
    /\ calls' = <<>>
    /\ upstream' = <<>>
    /\ nreq' = nreq + 1
    /\ UNCHANGED <<interceptorVars, engineVars, logVars, writerVars, cache, rlast, prev,
                   policies>>

InitStats ==
    /\ LogIdle
    /\ GatewayIdle
    /\ InterceptorIdle
    /\ EngineIdle

NextStats == LogStatsEvent \/ GetStatsApi

SpecStats == InitStats /\ [][NextStats]_vars

\* C20: GET /api/stats answers, for the log as it is when the request
\* arrives, total = the number of its events, blocked = the number with
\* decision BLOCK, high-risk = the number with score >= 0.8 and decision
\* BLOCK, and active agents = the number of agent records with status
\* Active.
C20_StatsCounts ==
    [][nreq' # nreq =>
        LET logs == IF store.kind = "list" THEN store.data ELSE <<>>
        IN  /\ resp'.content.totalRequests = Len(logs)
            /\ resp'.content.blockedRequests = CountBlocked(logs)
            /\ resp'.content.highRiskAlerts = CountHighRisk(logs)
            /\ resp'.content.activeAgents = 3]_vars

(***************************************************************************)
(* SpecEngine: evaluate_prompt applied to every combination of scanner     *)
(* answers and failures                                                    *)
(***************************************************************************)
InitEngine ==
    /\ prompt \in EnginePrompts
    /\ scan \in Scans
    /\ result = None
    /\ ollama_score = None
    /\ InterceptorIdle
    /\ LogIdle
    /\ GatewayIdle

EvaluatePrompt ==
    /\ result = None
    /\ result' = evaluate_prompt(scan, prompt)
    /\ ollama_score' = _call_ollama_brain(scan.brain)
    /\ UNCHANGED <<prompt, scan, interceptorVars, logVars, writerVars, gatewayVars>>

NextEngine == EvaluatePrompt

SpecEngine == InitEngine /\ [][NextEngine]_vars

\* C1: every result of evaluate_prompt has decision BLOCK exactly when its
\* score is at least 0.5, the boundary included.
C1_BlockIffHalf ==
    result # None => (result.decision = "BLOCK" <=> result.score >= 50000)

\* a result with the boundary score 0.5 has been returned while an adapter
\* failed
C1_Witness ==
    /\ result # None
    /\ result.score = 50000
    /\ result.decision = "BLOCK"
    /\ scan.fw.kind = "error"

\* the score each scanner adapter returns to the aggregator
AdapterScores(sc, p) ==
    { IF sc.guard /\ sc.pi.kind = "invalid" THEN sc.pi.score ELSE 0,
      IF sc.guard /\ sc.secrets.kind = "invalid" THEN 80000 ELSE 0,
      IF sc.guard /\ sc.topics.kind = "invalid" THEN 70000 ELSE 0,
      IF sc.fw.kind = "error" THEN 0 ELSE FirewallScore(sc.fw),
      _call_ollama_brain(sc.brain),
      IF BeforeKeywords(sc).risk_score = 0 /\ KeywordHit(p) THEN 90000 ELSE 0 }

SetMax(S) == CHOOSE x \in S : \A y \in S : y <= x

\* C2: the score returned by the aggregator is the maximum of the scores
\* the scanner adapters returned.
C2_ScoreIsMax ==
    result # None => result.score = SetMax(AdapterScores(scan, prompt))

\* C3: the remote-brain adapter yields 1.0 for every reply that cannot be
\* parsed into a score, and 0 for a transport error or timeout.
C3_BrainFailClosedOnParse ==
    result # None =>
        /\ scan.brain.kind \in {"not_json", "not_string", "not_float"}
              => ollama_score = 100000
        /\ scan.brain.kind = "transport_error" => ollama_score = 0

\* C18: every score the aggregator returns lies between 0 and 1, whatever
\* the classifier, the firewall and the remote brain supply.
C18_ScoreInUnitInterval ==
    result # None => (0 <= result.score /\ result.score <= 100000)

\* C19: a result with decision BLOCK carries at least one reason produced
\* by an adapter, never the placeholder Clean.
C19_BlockHasReason ==
    (result # None /\ result.decision = "BLOCK") =>
        /\ result.details # <<>>
        /\ \A i \in 1..Len(result.details) : result.details[i] # <<"Clean">>

\* the scores the adapters other than the keyword fallback returned
OtherAdapterScores(sc) ==
    { IF sc.guard /\ sc.pi.kind = "invalid" THEN sc.pi.score ELSE 0,
      IF sc.guard /\ sc.secrets.kind = "invalid" THEN 80000 ELSE 0,
      IF sc.guard /\ sc.topics.kind = "invalid" THEN 70000 ELSE 0,
      IF sc.fw.kind = "error" THEN 0 ELSE FirewallScore(sc.fw),
      _call_ollama_brain(sc.brain) }

KeywordReason(r) == \E i \in 1..Len(r.details) : r.details[i] = <<"Fallback Keyword Match">>

\* C21: the keyword fallback contributes only when every other adapter
\* returned score 0; then, on a text holding a jailbreak phrase, the result
\* is 0.9 with the keyword reason as its one reason; when another adapter
\* returned a score other than 0 it contributes nothing.
C21_KeywordOnlyWhenAllZero ==
    result # None =>
        /\ KeywordReason(result) => OtherAdapterScores(scan) = {0}
        /\ (OtherAdapterScores(scan) = {0} /\ KeywordHit(prompt)) =>
              /\ result.score = 90000
              /\ result.details = << <<"Fallback Keyword Match">> >>
        /\ OtherAdapterScores(scan) # {0} =>
              result = Decide(BeforeKeywords(scan))

\* the answers of the scanners with every raised error replaced by a clean
\* answer
WithoutFailures(sc) ==
    [guard |-> sc.guard,
     pi |-> IF sc.pi.kind = "error" THEN [kind |-> "valid", score |-> 0] ELSE sc.pi,
     secrets |-> IF sc.secrets.kind = "error" THEN [kind |-> "valid"] ELSE sc.secrets,
     topics |-> IF sc.topics.kind = "error" THEN [kind |-> "valid"] ELSE sc.topics,
     fw |-> IF sc.fw.kind = "error"
            THEN [kind |-> "result", risk_score |-> 0, action |-> "NONE"] ELSE sc.fw,
     brain |-> sc.brain]

ReasonOf(r, name) == \E i \in 1..Len(r.details) : r.details[i][1] = name

\* C22: a raising injection, secrets, topic or firewall adapter adds no
\* reason and no score: evaluate_prompt returns the result the remaining
\* adapters alone give, the same as if the failed adapter had answered
\* clean.
C22_FailuresAbsorbed ==
    result # None =>
        /\ result = evaluate_prompt(WithoutFailures(scan), prompt)
        /\ scan.pi.kind = "error" => ~ReasonOf(result, "Prompt Injection Detected")
        /\ scan.secrets.kind = "error" => ~ReasonOf(result, "Secrets Leakage Detected")
        /\ scan.topics.kind = "error" => ~ReasonOf(result, "Banned Topic Detected")
        /\ scan.fw.kind = "error" => ~ReasonOf(result, "LlamaFirewall flag")
        /\ (scan.guard /\ scan.secrets.kind = "invalid") =>
              ReasonOf(result, "Secrets Leakage Detected") /\ result.score >= 80000

\* the injection scanner and the firewall raised, the secrets scanner that
\* ran between them flagged the prompt, and the result carries its score
C22_Witness ==
    /\ result # None
    /\ scan.pi.kind = "error"
    /\ scan.fw.kind = "error"
    /\ scan.secrets.kind = "invalid"
    /\ result.score = 80000
    /\ result.decision = "BLOCK"

(***************************************************************************)
(* SpecInterceptor: intercept_and_clean applied to every text              *)
(***************************************************************************)
InitInterceptor ==
    /\ content \in Texts
    /\ iresult = None
    /\ EngineIdle
    /\ LogIdle
    /\ GatewayIdle

InterceptAndClean ==
    /\ iresult = None
    /\ iresult' = intercept_and_clean(content)
    /\ UNCHANGED <<content, engineVars, logVars, writerVars, gatewayVars>>

NextInterceptor == InterceptAndClean

SpecInterceptor == InitInterceptor /\ [][NextInterceptor]_vars

\* C4: screen returns allowed = false with the transfer reason and an empty
\* redacted content whenever the text holds a transfer phrase, whatever else
\* was found, and allowed = true whenever it holds none.
C4_TransferHardBlock ==
    iresult # None =>
        /\ HasTransferPhrase(content) =>
              /\ iresult.allowed = FALSE
              /\ iresult.blocked_reason = "Unauthorized transfer request detected"
              /\ iresult.redacted_content = <<>>
        /\ ~HasTransferPhrase(content) => iresult.allowed = TRUE

\* a transfer phrase beside a credit card number has been screened
C4_Witness ==
    /\ iresult # None
    /\ HasTransferPhrase(content)
    /\ \E k \in 1..Len(iresult.detected_items) :
          iresult.detected_items[k].type = "CREDIT_CARD"
    /\ iresult.allowed = FALSE
====
